---- MODULE Spec2Model ----
(***************************************************************************)
(* Kindlinho bot (src/main.py): the session state dictionary, the lock     *)
(* that guards it, the message handlers (/start, /kindle, /stop, document  *)
(* upload) running on concurrent handler threads, and the idle monitor     *)
(* thread.  One action per statement group between two lock operations or  *)
(* collaborator calls.                                                     *)
(***************************************************************************)
EXTENDS Integers, Sequences, FiniteSets, TLC

(***************************************************************************)
(* Configuration and bounds                                                *)
(***************************************************************************)
\* ALLOWED_USER_ID: the single authorized Telegram user id (env var, non-zero).
ALLOWED_USER_ID == 1

\* IDLE_SLEEP_SECONDS = 2 * 60 * 60
IDLE_SLEEP_SECONDS == 2 * 60 * 60

\* errors[:10] in the /stop summary
MaxShown == 10

\* Cap on each counter (an upload is only taken up while it cannot push a
\* counter beyond the cap).
MaxCount == 1

\* The instants at which time.time() is observed: process start, just below
\* and at the idle threshold, and the threshold after a second session.
Instants == {0, IDLE_SLEEP_SECONDS - 1, IDLE_SLEEP_SECONDS, 2 * IDLE_SLEEP_SECONDS}

\* Handler threads (the dispatcher may run handlers concurrently) and the
\* idle monitor thread.
Handlers == {1, 2}
Monitor == 0
Threads == Handlers \cup {Monitor}

\* The lock is free.
Free == -1

\* message.from_user is None
NoUser == 0
\* sender ids seen: none, the owner, somebody else
Senders == {NoUser, ALLOWED_USER_ID, ALLOWED_USER_ID + 1}

\* doc.file_name is None
NoName == <<>>
\* File names are sequences of characters.
Name_B_c_EPUB == <<"B", "_", "c", ".", "E", "P", "U", "B">>
Name_a_txt == <<"a", ".", "t", "x", "t">>
Name_livro_epub == <<"l", "i", "v", "r", "o", ".", "e", "p", "u", "b">>
FileNames == {Name_B_c_EPUB, Name_a_txt}
DotEpub == <<".", "e", "p", "u", "b">>

Kinds == {"start", "kindle", "stop", "document"}

\* No message (no update being handled / nothing delivered to the chat).
NoMsg == [text |-> "none"]

\* The updates the dispatcher can hand to a handler thread.
Updates ==
    [kind : {"start", "kindle", "stop"}, sender : Senders, file_name : {NoName}]
        \cup [kind : {"document"}, sender : Senders, file_name : FileNames]

(***************************************************************************)
(* Pure helpers                                                            *)
(***************************************************************************)
\* str.lower() on one character of the alphabet used in the file names
LowerChar(c) ==
    CASE c = "B" -> "b"
      [] c = "E" -> "e"
      [] c = "P" -> "p"
      [] c = "U" -> "u"
      [] OTHER -> c

Lower(s) == [i \in 1..Len(s) |-> LowerChar(s[i])]

\* str.endswith
EndsWith(s, suffix) ==
    /\ Len(s) >= Len(suffix)
    /\ SubSeq(s, Len(s) - Len(suffix) + 1, Len(s)) = suffix

\* filename = doc.file_name or "livro.epub"
FileNameOf(m) == IF m.file_name = NoName THEN Name_livro_epub ELSE m.file_name

\* filename.lower().endswith(".epub")
IsEpub(filename) == EndsWith(Lower(filename), DotEpub)

\* re.sub(r"\.epub$", "", filename, flags=re.IGNORECASE)
StripEpub(s) == IF IsEpub(s) THEN SubSeq(s, 1, Len(s) - Len(DotEpub)) ELSE s

\* .replace("_", " ").replace("-", " ")
Spaced(s) == [i \in 1..Len(s) |-> IF s[i] \in {"_", "-"} THEN " " ELSE s[i]]

\* re.sub(r"\s+", " ", name)
RECURSIVE Collapse(_)
Collapse(s) ==
    IF Len(s) <= 1 THEN s
    ELSE IF s[1] = " " /\ s[2] = " " THEN Collapse(Tail(s))
    ELSE <<s[1]>> \o Collapse(Tail(s))

\* .strip()
RECURSIVE StripLeft(_)
StripLeft(s) == IF s # <<>> /\ s[1] = " " THEN StripLeft(Tail(s)) ELSE s

RECURSIVE StripRight(_)
StripRight(s) ==
    IF s # <<>> /\ s[Len(s)] = " " THEN StripRight(SubSeq(s, 1, Len(s) - 1)) ELSE s

prettify_title(filename) == StripRight(StripLeft(Collapse(Spaced(StripEpub(filename)))))

\* Variant: an update without a sender passes the test.
only_owner_NoSenderPasses(m) == m.sender = NoUser \/ m.sender = ALLOWED_USER_ID

\* message.from_user and message.from_user.id == ALLOWED_USER_ID
only_owner(m) == m.sender # NoUser /\ m.sender = ALLOWED_USER_ID

\* s[:n]
FirstN(s, n) == SubSeq(s, 1, IF Len(s) < n THEN Len(s) ELSE n)

(***************************************************************************)
(* Texts sent to the chat                                                  *)
(***************************************************************************)
DenialText == [text |-> "Este bot e privado"]
StartText == [text |-> "Ola Lu"]
KindleOnText == [text |-> "Modo Kindle ativo"]
RestingText == [text |-> "Eu ja estava em descanso"]
NeedKindleText == [text |-> "Antes disso usa /kindle"]
NotEpubText == [text |-> "Esse ficheiro nao e EPUB"]
DownloadErrorText(filename) == [text |-> "Erro ao descarregar", file |-> filename]
MailErrorText(filename) == [text |-> "Erro ao enviar para Kindle", file |-> filename]
SentText(title) == [text |-> "foi enviado para o Kindlinho", title |-> title]

\* The /stop summary: the three counts and the lines of errors[:10].
StopSummaryText(r, ok, fail, errs) ==
    [text |-> "Modo Kindle desativado", received |-> r, sent_ok |-> ok,
     sent_fail |-> fail, errors |-> FirstN(errs, MaxShown)]

\* The idle monitor's summary: the inactivity marker and the three counts;
\* the f-string has no line for the error log.
IdleSummaryText(r, ok, fail) ==
    [text |-> "Sem atividade ha 2h. Modo Kindle desativado", received |-> r,
     sent_ok |-> ok, sent_fail |-> fail, errors |-> <<>>]

\* Entries appended to state["errors"]
DownloadError(filename) == [file |-> filename, what |-> "falha a descarregar"]
MailError(filename) == [file |-> filename, what |-> "falha ao enviar email"]

(***************************************************************************)
(* State                                                                   *)
(***************************************************************************)
VARIABLES
    kindle_mode,    \* state["kindle_mode"]
    received,       \* state["received"]
    sent_ok,        \* state["sent_ok"]
    sent_fail,      \* state["sent_fail"]
    errors,         \* state["errors"]
    last_activity,  \* state["last_activity"]
    lock,           \* the thread holding threading.Lock(), or Free
    now,            \* time.time()
    pc,             \* where each thread stands
    msg,            \* the update each handler thread is handling
    was_on,         \* cmd_stop's local was_on
    snap,           \* cmd_stop's locals received, sent_ok, sent_fail, errors
    summary,        \* idle_monitor's local summary
    outbox          \* the message being handed to the chat, and by which thread

shared == <<kindle_mode, received, sent_ok, sent_fail, errors, last_activity>>
counters == <<received, sent_ok, sent_fail, errors>>
locals == <<msg, was_on, snap>>
vars == <<kindle_mode, received, sent_ok, sent_fail, errors, last_activity,
          lock, now, pc, msg, was_on, snap, summary, outbox>>

\* Nothing is being handed to the chat.
Nothing == [by |-> Monitor, text |-> NoMsg]

NoSnap == [received |-> 0, sent_ok |-> 0, sent_fail |-> 0, errors |-> <<>>]

Init ==
    /\ kindle_mode = FALSE
    /\ received = 0
    /\ sent_ok = 0
    /\ sent_fail = 0
    /\ errors = <<>>
    /\ last_activity = 0
    /\ lock = Free
    /\ now = 0
    /\ pc = [t \in Threads |-> IF t = Monitor THEN "sleep" ELSE "done"]
    /\ msg = [t \in Handlers |-> NoMsg]
    /\ was_on = [t \in Handlers |-> FALSE]
    /\ snap = [t \in Handlers |-> NoSnap]
    /\ summary = NoMsg
    /\ outbox = Nothing

(***************************************************************************)
(* Lock and control helpers                                                *)
(***************************************************************************)
\* Variant: the lock is taken without waiting for it to be free.
Acquire_NoWait(t) == lock' = t

\* with lock: (entry) -- blocks until the lock is free
Acquire(t) == lock = Free /\ lock' = t

\* Variant: the with block is left without the lock being given back.
Release_Keeps(t) == lock = t /\ lock' = lock

\* with lock: (exit)
Release(t) == lock' = Free

\* The program never reads outbox, so a message handed to the chat is taken
\* before the next step of any thread: this removes no reachable state of
\* the program.  Thread t is next to run the statements at label.
At(t, label) == outbox = Nothing /\ pc[t] = label

Goto(t, label) == pc' = [pc EXCEPT ![t] = label]

\* bot.reply_to / bot.send_message: delivers the text or raises.
Deliver(t, text, ok) == outbox' = IF ok THEN [by |-> t, text |-> text] ELSE Nothing

\* The handler returns: its locals are gone.
Return(t) ==
    /\ pc' = [pc EXCEPT ![t] = "done"]
    /\ msg' = [msg EXCEPT ![t] = NoMsg]
    /\ was_on' = [was_on EXCEPT ![t] = FALSE]
    /\ snap' = [snap EXCEPT ![t] = NoSnap]

\* Uploads being handled by the handler threads.
InFlight == Cardinality({t \in Handlers : msg[t] # NoMsg /\ msg[t].kind = "document"})

(***************************************************************************)
(* The dispatcher hands an update to a free handler thread; the handler    *)
(* starts with deny_if_not_owner's test.                                   *)
(***************************************************************************)
Receive(t) ==
    /\ At(t, "done")
    /\ \A u \in Handlers : u < t => pc[u] # "done"
    /\ \E m \in Updates :
        /\ m.kind = "document" =>
            /\ received + InFlight < MaxCount
            /\ sent_ok + InFlight < MaxCount
            /\ sent_fail + InFlight < MaxCount
        /\ msg' = [msg EXCEPT ![t] = m]
        /\ Goto(t, IF only_owner(m) THEN "touch" ELSE "deny")
    /\ UNCHANGED <<shared, lock, now, was_on, snap, summary, outbox>>

\* deny_if_not_owner: reply_to inside try/except, then return True
Deny(t) ==
    /\ At(t, "deny")
    /\ \E ok \in BOOLEAN : Deliver(t, DenialText, ok)
    /\ Return(t)
    /\ UNCHANGED <<shared, lock, now, summary>>

\* touch(): with lock
TouchAcquire(t) ==
    /\ At(t, "touch")
    /\ Acquire(t)
    /\ Goto(t, "touch_cs")
    /\ UNCHANGED <<shared, now, locals, summary, outbox>>

\* touch(): state["last_activity"] = time.time(); then on to the handler body
TouchSet(t) ==
    /\ At(t, "touch_cs")
    /\ last_activity' = now
    /\ Release(t)
    /\ Goto(t, CASE msg[t].kind = "start" -> "start_reply"
                 [] msg[t].kind = "kindle" -> "kindle"
                 [] msg[t].kind = "stop" -> "stop"
                 [] msg[t].kind = "document" -> "mode")
    /\ UNCHANGED <<kindle_mode, counters, now, locals, summary, outbox>>

\* cmd_start: bot.reply_to
StartReply(t) ==
    /\ At(t, "start_reply")
    /\ \E ok \in BOOLEAN : Deliver(t, StartText, ok)
    /\ Return(t)
    /\ UNCHANGED <<shared, lock, now, summary>>

(***************************************************************************)
(* cmd_kindle                                                              *)
(***************************************************************************)
KindleAcquire(t) ==
    /\ At(t, "kindle")
    /\ Acquire(t)
    /\ Goto(t, "kindle_cs")
    /\ UNCHANGED <<shared, now, locals, summary, outbox>>

KindleSet(t) ==
    /\ At(t, "kindle_cs")
    /\ kindle_mode' = TRUE
    /\ received' = 0
    /\ sent_ok' = 0
    /\ sent_fail' = 0
    /\ errors' = <<>>
    /\ Release(t)
    /\ Goto(t, "kindle_reply")
    /\ UNCHANGED <<last_activity, now, locals, summary, outbox>>

KindleReply(t) ==
    /\ At(t, "kindle_reply")
    /\ \E ok \in BOOLEAN : Deliver(t, KindleOnText, ok)
    /\ Return(t)
    /\ UNCHANGED <<shared, lock, now, summary>>

(***************************************************************************)
(* cmd_stop                                                                *)
(***************************************************************************)
StopAcquire(t) ==
    /\ At(t, "stop")
    /\ Acquire(t)
    /\ Goto(t, "stop_clear")
    /\ UNCHANGED <<shared, now, locals, summary, outbox>>

\* Variant: the handler does not remember whether the session was active.
StopClear_AlwaysOn(t) ==
    /\ At(t, "stop_clear")
    /\ was_on' = [was_on EXCEPT ![t] = TRUE]
    /\ kindle_mode' = FALSE
    /\ Goto(t, "stop_capture")
    /\ UNCHANGED <<counters, last_activity, lock, now, msg, snap, summary, outbox>>

\* was_on = state["kindle_mode"]; state["kindle_mode"] = False
StopClear(t) ==
    /\ At(t, "stop_clear")
    /\ was_on' = [was_on EXCEPT ![t] = kindle_mode]
    /\ kindle_mode' = FALSE
    /\ Goto(t, "stop_capture")
    /\ UNCHANGED <<counters, last_activity, lock, now, msg, snap, summary, outbox>>

\* received = state["received"]; ... errors = list(state["errors"])
StopCapture(t) ==
    /\ At(t, "stop_capture")
    /\ snap' = [snap EXCEPT ![t] = [received |-> received, sent_ok |-> sent_ok,
                                    sent_fail |-> sent_fail, errors |-> errors]]
    /\ Goto(t, "stop_reset")
    /\ UNCHANGED <<shared, lock, now, msg, was_on, summary, outbox>>

\* Variant: the reset forgets the failure counter and the error log.
StopReset_KeepsFailures(t) ==
    /\ At(t, "stop_reset")
    /\ received' = 0
    /\ sent_ok' = 0
    /\ Release(t)
    /\ Goto(t, "stop_reply")
    /\ UNCHANGED <<kindle_mode, sent_fail, errors, last_activity, now, locals,
                   summary, outbox>>

\* reset after summary; leaves the with block
StopReset(t) ==
    /\ At(t, "stop_reset")
    /\ received' = 0
    /\ sent_ok' = 0
    /\ sent_fail' = 0
    /\ errors' = <<>>
    /\ Release(t)
    /\ Goto(t, "stop_reply")
    /\ UNCHANGED <<kindle_mode, last_activity, now, locals, summary, outbox>>

\* if not was_on: "already resting"; else the summary
StopReplyText(t) ==
    IF ~was_on[t] THEN RestingText
    ELSE StopSummaryText(snap[t].received, snap[t].sent_ok, snap[t].sent_fail,
                         snap[t].errors)

StopReply(t) ==
    /\ At(t, "stop_reply")
    /\ \E ok \in BOOLEAN : Deliver(t, StopReplyText(t), ok)
    /\ Return(t)
    /\ UNCHANGED <<shared, lock, now, summary>>

(***************************************************************************)
(* handle_document                                                         *)
(***************************************************************************)
\* ensure_kindle_mode: with lock
ModeAcquire(t) ==
    /\ At(t, "mode")
    /\ Acquire(t)
    /\ Goto(t, "mode_cs")
    /\ UNCHANGED <<shared, now, locals, summary, outbox>>

\* Variant: the extension test is missing.
ModeRead_NoExtensionTest(t) ==
    /\ At(t, "mode_cs")
    /\ Release(t)
    /\ Goto(t, IF ~kindle_mode THEN "need_kindle_reply" ELSE "received")
    /\ UNCHANGED <<shared, now, locals, summary, outbox>>

\* ensure_kindle_mode returns state["kindle_mode"]; then the extension test
ModeRead(t) ==
    /\ At(t, "mode_cs")
    /\ Release(t)
    /\ Goto(t, IF ~kindle_mode THEN "need_kindle_reply"
               ELSE IF ~IsEpub(FileNameOf(msg[t])) THEN "not_epub_reply"
               ELSE "received")
    /\ UNCHANGED <<shared, now, locals, summary, outbox>>

NeedKindleReply(t) ==
    /\ At(t, "need_kindle_reply")
    /\ \E ok \in BOOLEAN : Deliver(t, NeedKindleText, ok)
    /\ Return(t)
    /\ UNCHANGED <<shared, lock, now, summary>>

NotEpubReply(t) ==
    /\ At(t, "not_epub_reply")
    /\ \E ok \in BOOLEAN : Deliver(t, NotEpubText, ok)
    /\ Return(t)
    /\ UNCHANGED <<shared, lock, now, summary>>

ReceivedAcquire(t) ==
    /\ At(t, "received")
    /\ Acquire(t)
    /\ Goto(t, "received_cs")
    /\ UNCHANGED <<shared, now, locals, summary, outbox>>

\* state["received"] += 1
ReceivedInc(t) ==
    /\ At(t, "received_cs")
    /\ received' = received + 1
    /\ Release(t)
    /\ Goto(t, "download")
    /\ UNCHANGED <<kindle_mode, sent_ok, sent_fail, errors, last_activity, now,
                   locals, summary, outbox>>

\* bot.get_file / bot.download_file: returns the bytes or raises
Download(t) ==
    /\ At(t, "download")
    /\ \E ok \in BOOLEAN : Goto(t, IF ok THEN "mail" ELSE "download_fail")
    /\ UNCHANGED <<shared, lock, now, locals, summary, outbox>>

DownloadFailAcquire(t) ==
    /\ At(t, "download_fail")
    /\ Acquire(t)
    /\ Goto(t, "download_fail_cs")
    /\ UNCHANGED <<shared, now, locals, summary, outbox>>

\* Variant: the failure is counted but not logged.
DownloadFailRecord_NoLog(t) ==
    /\ At(t, "download_fail_cs")
    /\ sent_fail' = sent_fail + 1
    /\ Release(t)
    /\ Goto(t, "download_fail_reply")
    /\ UNCHANGED <<kindle_mode, received, sent_ok, errors, last_activity, now,
                   locals, summary, outbox>>

\* state["sent_fail"] += 1; state["errors"].append(...)
DownloadFailRecord(t) ==
    /\ At(t, "download_fail_cs")
    /\ sent_fail' = sent_fail + 1
    /\ errors' = Append(errors, DownloadError(FileNameOf(msg[t])))
    /\ Release(t)
    /\ Goto(t, "download_fail_reply")
    /\ UNCHANGED <<kindle_mode, received, sent_ok, last_activity, now, locals,
                   summary, outbox>>

DownloadFailReply(t) ==
    /\ At(t, "download_fail_reply")
    /\ \E ok \in BOOLEAN : Deliver(t, DownloadErrorText(FileNameOf(msg[t])), ok)
    /\ Return(t)
    /\ UNCHANGED <<shared, lock, now, summary>>

\* send_email_to_kindle: returns or raises
Mail(t) ==
    /\ At(t, "mail")
    /\ \E ok \in BOOLEAN : Goto(t, IF ok THEN "sent_ok" ELSE "mail_fail")
    /\ UNCHANGED <<shared, lock, now, locals, summary, outbox>>

SentOkAcquire(t) ==
    /\ At(t, "sent_ok")
    /\ Acquire(t)
    /\ Goto(t, "sent_ok_cs")
    /\ UNCHANGED <<shared, now, locals, summary, outbox>>

\* Variant: the success is counted in the failure counter.
SentOkInc_CountsFailure(t) ==
    /\ At(t, "sent_ok_cs")
    /\ sent_fail' = sent_fail + 1
    /\ Release(t)
    /\ Goto(t, "sent_reply")
    /\ UNCHANGED <<kindle_mode, received, sent_ok, errors, last_activity, now,
                   locals, summary, outbox>>

\* state["sent_ok"] += 1
SentOkInc(t) ==
    /\ At(t, "sent_ok_cs")
    /\ sent_ok' = sent_ok + 1
    /\ Release(t)
    /\ Goto(t, "sent_reply")
    /\ UNCHANGED <<kindle_mode, received, sent_fail, errors, last_activity, now,
                   locals, summary, outbox>>

\* The success reply is sent inside the try block: when reply_to raises, the
\* except branch of the e-mail step runs.
SentReply(t) ==
    /\ At(t, "sent_reply")
    /\ \E ok \in BOOLEAN :
        /\ Deliver(t, SentText(prettify_title(FileNameOf(msg[t]))), ok)
        /\ IF ok THEN Return(t)
           ELSE Goto(t, "mail_fail") /\ UNCHANGED locals
    /\ UNCHANGED <<shared, lock, now, summary>>

MailFailAcquire(t) ==
    /\ At(t, "mail_fail")
    /\ Acquire(t)
    /\ Goto(t, "mail_fail_cs")
    /\ UNCHANGED <<shared, now, locals, summary, outbox>>

\* state["sent_fail"] += 1; state["errors"].append(...)
MailFailRecord(t) ==
    /\ At(t, "mail_fail_cs")
    /\ sent_fail' = sent_fail + 1
    /\ errors' = Append(errors, MailError(FileNameOf(msg[t])))
    /\ Release(t)
    /\ Goto(t, "mail_fail_reply")
    /\ UNCHANGED <<kindle_mode, received, sent_ok, last_activity, now, locals,
                   summary, outbox>>

MailFailReply(t) ==
    /\ At(t, "mail_fail_reply")
    /\ \E ok \in BOOLEAN : Deliver(t, MailErrorText(FileNameOf(msg[t])), ok)
    /\ Return(t)
    /\ UNCHANGED <<shared, lock, now, summary>>

(***************************************************************************)
(* idle_monitor                                                            *)
(***************************************************************************)
\* time.sleep(30) is over; with lock
MonitorAcquire ==
    /\ At(Monitor, "sleep")
    /\ Acquire(Monitor)
    /\ Goto(Monitor, "check")
    /\ UNCHANGED <<shared, now, locals, summary, outbox>>

\* idle = time.time() - state["last_activity"]
IdleFor == now - last_activity

\* Variant: the counter reset sits one level out, under the kindle_mode test
\* alone, so that a tick below the threshold resets an active session.
MonitorCheck_ResetsActive ==
    /\ At(Monitor, "check")
    /\ IF kindle_mode /\ IdleFor >= IDLE_SLEEP_SECONDS
       THEN /\ Goto(Monitor, "auto_stop")
            /\ UNCHANGED <<lock, counters>>
       ELSE /\ Goto(Monitor, "sleep")
            /\ Release(Monitor)
            /\ IF kindle_mode
               THEN received' = 0 /\ sent_ok' = 0 /\ sent_fail' = 0 /\ errors' = <<>>
               ELSE UNCHANGED counters
    /\ UNCHANGED <<kindle_mode, last_activity, now, locals, summary, outbox>>

\* Variant: the tick deactivates an active session without the idle test.
MonitorCheck_NoIdleTest ==
    /\ At(Monitor, "check")
    /\ IF kindle_mode
       THEN /\ Goto(Monitor, "auto_stop")
            /\ UNCHANGED lock
       ELSE /\ Goto(Monitor, "sleep")
            /\ Release(Monitor)
    /\ UNCHANGED <<shared, now, locals, summary, outbox>>

\* Variant: the tick deactivates only a session idle for more than the
\* threshold.
MonitorCheck_StrictlyOver ==
    /\ At(Monitor, "check")
    /\ IF kindle_mode /\ IdleFor > IDLE_SLEEP_SECONDS
       THEN /\ Goto(Monitor, "auto_stop")
            /\ UNCHANGED lock
       ELSE /\ Goto(Monitor, "sleep")
            /\ Release(Monitor)
    /\ UNCHANGED <<shared, now, locals, summary, outbox>>

\* if state["kindle_mode"]: ... if idle >= IDLE_SLEEP_SECONDS:
MonitorCheck ==
    /\ At(Monitor, "check")
    /\ IF kindle_mode /\ IdleFor >= IDLE_SLEEP_SECONDS
       THEN /\ Goto(Monitor, "auto_stop")
            /\ UNCHANGED lock
       ELSE /\ Goto(Monitor, "sleep")
            /\ Release(Monitor)
    /\ UNCHANGED <<shared, now, locals, summary, outbox>>

\* Variant: the summary is composed after the counters were reset.
MonitorStop_ResetsFirst ==
    /\ At(Monitor, "auto_stop")
    /\ kindle_mode' = FALSE
    /\ received' = 0
    /\ sent_ok' = 0
    /\ sent_fail' = 0
    /\ errors' = <<>>
    /\ summary' = IdleSummaryText(0, 0, 0)
    /\ Goto(Monitor, "reset")
    /\ UNCHANGED <<last_activity, lock, now, locals, outbox>>

\* Variant: the deactivation also stamps the activity time.
MonitorStop_Touches ==
    /\ At(Monitor, "auto_stop")
    /\ kindle_mode' = FALSE
    /\ last_activity' = now
    /\ summary' = IdleSummaryText(received, sent_ok, sent_fail)
    /\ Goto(Monitor, "reset")
    /\ UNCHANGED <<counters, lock, now, locals, outbox>>

\* state["kindle_mode"] = False; summary = f"..."
MonitorStop ==
    /\ At(Monitor, "auto_stop")
    /\ kindle_mode' = FALSE
    /\ summary' = IdleSummaryText(received, sent_ok, sent_fail)
    /\ Goto(Monitor, "reset")
    /\ UNCHANGED <<counters, last_activity, lock, now, locals, outbox>>

\* reset counters after stopping
MonitorReset ==
    /\ At(Monitor, "reset")
    /\ received' = 0
    /\ sent_ok' = 0
    /\ sent_fail' = 0
    /\ errors' = <<>>
    /\ Goto(Monitor, "send")
    /\ UNCHANGED <<kindle_mode, last_activity, lock, now, locals, summary, outbox>>

\* Variant: the failure of the send is not caught; the with block is left
\* and the thread ends.
MonitorSend_Raises ==
    /\ At(Monitor, "send")
    /\ \E ok \in BOOLEAN :
        /\ Deliver(Monitor, summary, ok)
        /\ Goto(Monitor, IF ok THEN "sleep" ELSE "crashed")
    /\ summary' = NoMsg
    /\ Release(Monitor)
    /\ UNCHANGED <<shared, now, locals>>

\* try: bot.send_message(ALLOWED_USER_ID, summary) except: pass -- still
\* inside the with block, which is left when the call is over.
MonitorSend ==
    /\ At(Monitor, "send")
    /\ \E ok \in BOOLEAN : Deliver(Monitor, summary, ok)
    /\ summary' = NoMsg
    /\ Release(Monitor)
    /\ Goto(Monitor, "sleep")
    /\ UNCHANGED <<shared, now, locals>>

(***************************************************************************)
(* The clock                                                               *)
(***************************************************************************)
Advance ==
    /\ outbox = Nothing
    /\ \E i \in Instants : i > now /\ now' = i
    /\ UNCHANGED <<shared, lock, pc, locals, summary, outbox>>

\* The chat has taken the message.
Delivered ==
    /\ outbox # Nothing
    /\ outbox' = Nothing
    /\ UNCHANGED <<shared, lock, now, pc, locals, summary>>

\* One step of a thread, of the clock, or of the chat taking a message.
Next ==
    \/ \E t \in Handlers : Receive(t)
    \/ \E t \in Handlers : Deny(t)
    \/ \E t \in Handlers : TouchAcquire(t)
    \/ \E t \in Handlers : TouchSet(t)
    \/ \E t \in Handlers : StartReply(t)
    \/ \E t \in Handlers : KindleAcquire(t)
    \/ \E t \in Handlers : KindleSet(t)
    \/ \E t \in Handlers : KindleReply(t)
    \/ \E t \in Handlers : StopAcquire(t)
    \/ \E t \in Handlers : StopClear(t)
    \/ \E t \in Handlers : StopCapture(t)
    \/ \E t \in Handlers : StopReset(t)
    \/ \E t \in Handlers : StopReply(t)
    \/ \E t \in Handlers : ModeAcquire(t)
    \/ \E t \in Handlers : ModeRead(t)
    \/ \E t \in Handlers : NeedKindleReply(t)
    \/ \E t \in Handlers : NotEpubReply(t)
    \/ \E t \in Handlers : ReceivedAcquire(t)
    \/ \E t \in Handlers : ReceivedInc(t)
    \/ \E t \in Handlers : Download(t)
    \/ \E t \in Handlers : DownloadFailAcquire(t)
    \/ \E t \in Handlers : DownloadFailRecord(t)
    \/ \E t \in Handlers : DownloadFailReply(t)
    \/ \E t \in Handlers : Mail(t)
    \/ \E t \in Handlers : SentOkAcquire(t)
    \/ \E t \in Handlers : SentOkInc(t)
    \/ \E t \in Handlers : SentReply(t)
    \/ \E t \in Handlers : MailFailAcquire(t)
    \/ \E t \in Handlers : MailFailRecord(t)
    \/ \E t \in Handlers : MailFailReply(t)
    \/ MonitorAcquire
    \/ MonitorCheck
    \/ MonitorStop
    \/ MonitorReset
    \/ MonitorSend
    \/ Advance
    \/ Delivered

Spec == Init /\ [][Next]_vars

(***************************************************************************)
(* Runs in which the handlers do not overlap (the dispatcher hands an      *)
(* update to the second handler thread only while the first is busy, so    *)
(* the second thread stays idle) and every reply of a handler is           *)
(* delivered.  The idle monitor and the clock run as in Spec.              *)
(***************************************************************************)
ReplyLabels ==
    {"deny", "start_reply", "kindle_reply", "stop_reply", "need_kindle_reply",
     "not_epub_reply", "download_fail_reply", "sent_reply", "mail_fail_reply"}

\* No overlap, and the handlers' replies are delivered.
Sequential ==
    /\ pc'[2] = "done"
    /\ \A t \in Handlers : (pc[t] \in ReplyLabels /\ pc'[t] # pc[t]) => outbox' # Nothing

SeqNext ==
    \/ (\E t \in Handlers : Receive(t)) /\ Sequential
    \/ (\E t \in Handlers : Deny(t)) /\ Sequential
    \/ (\E t \in Handlers : TouchAcquire(t)) /\ Sequential
    \/ (\E t \in Handlers : TouchSet(t)) /\ Sequential
    \/ (\E t \in Handlers : StartReply(t)) /\ Sequential
    \/ (\E t \in Handlers : KindleAcquire(t)) /\ Sequential
    \/ (\E t \in Handlers : KindleSet(t)) /\ Sequential
    \/ (\E t \in Handlers : KindleReply(t)) /\ Sequential
    \/ (\E t \in Handlers : StopAcquire(t)) /\ Sequential
    \/ (\E t \in Handlers : StopClear(t)) /\ Sequential
    \/ (\E t \in Handlers : StopCapture(t)) /\ Sequential
    \/ (\E t \in Handlers : StopReset(t)) /\ Sequential
    \/ (\E t \in Handlers : StopReply(t)) /\ Sequential
    \/ (\E t \in Handlers : ModeAcquire(t)) /\ Sequential
    \/ (\E t \in Handlers : ModeRead(t)) /\ Sequential
    \/ (\E t \in Handlers : NeedKindleReply(t)) /\ Sequential
    \/ (\E t \in Handlers : NotEpubReply(t)) /\ Sequential
    \/ (\E t \in Handlers : ReceivedAcquire(t)) /\ Sequential
    \/ (\E t \in Handlers : ReceivedInc(t)) /\ Sequential
    \/ (\E t \in Handlers : Download(t)) /\ Sequential
    \/ (\E t \in Handlers : DownloadFailAcquire(t)) /\ Sequential
    \/ (\E t \in Handlers : DownloadFailRecord(t)) /\ Sequential
    \/ (\E t \in Handlers : DownloadFailReply(t)) /\ Sequential
    \/ (\E t \in Handlers : Mail(t)) /\ Sequential
    \/ (\E t \in Handlers : SentOkAcquire(t)) /\ Sequential
    \/ (\E t \in Handlers : SentOkInc(t)) /\ Sequential
    \/ (\E t \in Handlers : SentReply(t)) /\ Sequential
    \/ (\E t \in Handlers : MailFailAcquire(t)) /\ Sequential
    \/ (\E t \in Handlers : MailFailRecord(t)) /\ Sequential
    \/ (\E t \in Handlers : MailFailReply(t)) /\ Sequential
    \/ MonitorAcquire /\ Sequential
    \/ MonitorCheck /\ Sequential
    \/ MonitorStop /\ Sequential
    \/ MonitorReset /\ Sequential
    \/ MonitorSend /\ Sequential
    \/ Advance /\ Sequential
    \/ Delivered /\ Sequential

SeqSpec == Init /\ [][SeqNext]_vars

\* bot.send_message of idle_monitor raises every time it is called.
NotifyFails == (pc[Monitor] = "send" /\ pc'[Monitor] # "send") => outbox' = Nothing

NotifyFailNext ==
    \/ (\E t \in Handlers : Receive(t)) /\ NotifyFails
    \/ (\E t \in Handlers : Deny(t)) /\ NotifyFails
    \/ (\E t \in Handlers : TouchAcquire(t)) /\ NotifyFails
    \/ (\E t \in Handlers : TouchSet(t)) /\ NotifyFails
    \/ (\E t \in Handlers : StartReply(t)) /\ NotifyFails
    \/ (\E t \in Handlers : KindleAcquire(t)) /\ NotifyFails
    \/ (\E t \in Handlers : KindleSet(t)) /\ NotifyFails
    \/ (\E t \in Handlers : KindleReply(t)) /\ NotifyFails
    \/ (\E t \in Handlers : StopAcquire(t)) /\ NotifyFails
    \/ (\E t \in Handlers : StopClear(t)) /\ NotifyFails
    \/ (\E t \in Handlers : StopCapture(t)) /\ NotifyFails
    \/ (\E t \in Handlers : StopReset(t)) /\ NotifyFails
    \/ (\E t \in Handlers : StopReply(t)) /\ NotifyFails
    \/ (\E t \in Handlers : ModeAcquire(t)) /\ NotifyFails
    \/ (\E t \in Handlers : ModeRead(t)) /\ NotifyFails
    \/ (\E t \in Handlers : NeedKindleReply(t)) /\ NotifyFails
    \/ (\E t \in Handlers : NotEpubReply(t)) /\ NotifyFails
    \/ (\E t \in Handlers : ReceivedAcquire(t)) /\ NotifyFails
    \/ (\E t \in Handlers : ReceivedInc(t)) /\ NotifyFails
    \/ (\E t \in Handlers : Download(t)) /\ NotifyFails
    \/ (\E t \in Handlers : DownloadFailAcquire(t)) /\ NotifyFails
    \/ (\E t \in Handlers : DownloadFailRecord(t)) /\ NotifyFails
    \/ (\E t \in Handlers : DownloadFailReply(t)) /\ NotifyFails
    \/ (\E t \in Handlers : Mail(t)) /\ NotifyFails
    \/ (\E t \in Handlers : SentOkAcquire(t)) /\ NotifyFails
    \/ (\E t \in Handlers : SentOkInc(t)) /\ NotifyFails
    \/ (\E t \in Handlers : SentReply(t)) /\ NotifyFails
    \/ (\E t \in Handlers : MailFailAcquire(t)) /\ NotifyFails
    \/ (\E t \in Handlers : MailFailRecord(t)) /\ NotifyFails
    \/ (\E t \in Handlers : MailFailReply(t)) /\ NotifyFails
    \/ MonitorAcquire /\ NotifyFails
    \/ MonitorCheck /\ NotifyFails
    \/ MonitorStop /\ NotifyFails
    \/ MonitorReset /\ NotifyFails
    \/ MonitorSend /\ NotifyFails
    \/ Advance /\ NotifyFails
    \/ Delivered /\ NotifyFails

NotifyFailSpec == Init /\ [][NotifyFailNext]_vars

\* A handler thread that has taken an update runs on: the interpreter
\* schedules it, and the calls it makes come back.
HandlerStep(t) ==
    \/ Deny(t)
    \/ TouchAcquire(t)
    \/ TouchSet(t)
    \/ StartReply(t)
    \/ KindleAcquire(t)
    \/ KindleSet(t)
    \/ KindleReply(t)
    \/ StopAcquire(t)
    \/ StopClear(t)
    \/ StopCapture(t)
    \/ StopReset(t)
    \/ StopReply(t)
    \/ ModeAcquire(t)
    \/ ModeRead(t)
    \/ NeedKindleReply(t)
    \/ NotEpubReply(t)
    \/ ReceivedAcquire(t)
    \/ ReceivedInc(t)
    \/ Download(t)
    \/ DownloadFailAcquire(t)
    \/ DownloadFailRecord(t)
    \/ DownloadFailReply(t)
    \/ Mail(t)
    \/ SentOkAcquire(t)
    \/ SentOkInc(t)
    \/ SentReply(t)
    \/ MailFailAcquire(t)
    \/ MailFailRecord(t)
    \/ MailFailReply(t)

\* The thread of idle_monitor runs on.
MonitorStep ==
    \/ MonitorAcquire
    \/ MonitorCheck
    \/ MonitorStop
    \/ MonitorReset
    \/ MonitorSend

\* Fair scheduling: a thread whose next step is possible again and again
\* takes it (a thread waiting for the lock gets it when it is released again
\* and again), and a message handed to the chat is taken.
FairSpec ==
    /\ Spec
    /\ \A t \in Handlers : SF_vars(HandlerStep(t))
    /\ SF_vars(MonitorStep)
    /\ WF_vars(Delivered)

(***************************************************************************)
(* Vocabulary of the properties                                            *)
(***************************************************************************)
\* Labels at which a thread is inside a with-lock block.
LockedLabels ==
    {"touch_cs", "kindle_cs", "stop_clear", "stop_capture", "stop_reset",
     "mode_cs", "received_cs", "download_fail_cs", "sent_ok_cs", "mail_fail_cs",
     "check", "auto_stop", "reset", "send"}

\* Labels at which a thread is in a call to the chat or mail transport.
CallLabels ==
    {"deny", "start_reply", "kindle_reply", "stop_reply", "need_kindle_reply",
     "not_epub_reply", "download", "download_fail_reply", "mail", "sent_reply",
     "mail_fail_reply", "send"}

\* Labels inside cmd_stop's with-lock block.
StopLabels == {"stop_clear", "stop_capture", "stop_reset"}

CountersZero == received = 0 /\ sent_ok = 0 /\ sent_fail = 0 /\ errors = <<>>

\* Thread t takes a step.
Moves(t) == pc'[t] # pc[t]

\* Some counter goes down or the error log gets shorter.
Lowered ==
    \/ received' < received
    \/ sent_ok' < sent_ok
    \/ sent_fail' < sent_fail
    \/ Len(errors') < Len(errors)

\* The update's sender is not the configured id (or there is no sender).
Unauthorized(m) == m.sender # ALLOWED_USER_ID

(***************************************************************************)
(* C1: whenever the session is inactive and no critical section is in      *)
(* progress, the three counters are 0 and the error log is empty (no       *)
(* upload handler records anything outside a session).                     *)
(***************************************************************************)
C1_CountersZeroWhileInactive == (~kindle_mode /\ lock = Free) => CountersZero

(***************************************************************************)
(* C2: at the moment a /kindle or /stop handler of the authorized user     *)
(* leaves its critical section, received, sent_ok and sent_fail are 0 and  *)
(* the error log is empty.                                                 *)
(***************************************************************************)
C2_ZeroOnLeaving ==
    [][\A t \in Handlers :
        (pc[t] \in {"kindle_cs", "stop_reset"} /\ Moves(t)) =>
            /\ lock = t /\ lock' = Free
            /\ received' = 0 /\ sent_ok' = 0 /\ sent_fail' = 0 /\ errors' = <<>>]_vars

\* A /stop handler has just left its critical section, having reset counts
\* and an error log that were not zero.
C2_Witness ==
    \E t \in Handlers :
        /\ pc[t] = "stop_reply"
        /\ snap[t].received > 0 /\ snap[t].errors # <<>>
        /\ lock = Free /\ CountersZero

(***************************************************************************)
(* C3: a /stop handled while the session is inactive leaves the counters   *)
(* and the error log unchanged and replies "already resting"; a summary is *)
(* replied only when the session was active.                               *)
(***************************************************************************)
C3_StopWhileInactive ==
    [][\A t \in Handlers :
        /\ (pc[t] \in StopLabels /\ was_on'[t] = FALSE /\ Moves(t)) =>
                UNCHANGED counters
        /\ (pc[t] = "stop_reply" /\ Moves(t) /\ outbox' # Nothing) =>
                IF was_on[t] THEN outbox'.text.text = "Modo Kindle desativado"
                ELSE outbox'.text = RestingText]_vars

(***************************************************************************)
(* C4: no step zeroes the counters or empties the error log while the      *)
(* session is active before the step and still active after it.            *)
(***************************************************************************)
C4_NoResetWhileActive ==
    [][(kindle_mode /\ kindle_mode') => ~Lowered]_vars

\* C4 as amended: the counters and the error log only go down in the reset
\* of /stop, in the reset of the idle monitor's deactivation, and in the
\* activation by /kindle; the only such step with the session active before
\* and after it is a /kindle handled while the session is already active.
C4_ResetOnlyBySessionCommands ==
    [][Lowered =>
        /\ \/ \E t \in Handlers : pc[t] \in {"kindle_cs", "stop_reset"} /\ Moves(t)
           \/ pc[Monitor] = "reset" /\ Moves(Monitor)
        /\ (kindle_mode /\ kindle_mode') =>
                \E t \in Handlers : pc[t] = "kindle_cs" /\ Moves(t)]_vars

\* A /kindle handler is about to reset the counters of an active session.
C4_Witness ==
    \E t \in Handlers : pc[t] = "kindle_cs" /\ kindle_mode /\ received > 0

(***************************************************************************)
(* C5: a tick of the idle monitor that finds the session active and idle   *)
(* for at least the threshold sets kindle_mode to false and resets the     *)
(* counters, and the one notification it sends carries the counts held     *)
(* immediately before the deactivation; a tick that does not find this     *)
(* sends nothing.                                                          *)
(***************************************************************************)
C5_IdleTick ==
    [][/\ (pc[Monitor] = "check" /\ Moves(Monitor)) =>
            /\ pc'[Monitor] = "auto_stop" <=>
                    (kindle_mode /\ now - last_activity >= IDLE_SLEEP_SECONDS)
            /\ pc'[Monitor] # "auto_stop" =>
                    (pc'[Monitor] = "sleep" /\ UNCHANGED <<shared, outbox>>)
       /\ (pc[Monitor] = "auto_stop" /\ Moves(Monitor)) =>
            /\ kindle_mode /\ ~kindle_mode'
            /\ summary'.received = received
            /\ summary'.sent_ok = sent_ok
            /\ summary'.sent_fail = sent_fail
            /\ UNCHANGED counters
       /\ (pc[Monitor] = "reset" /\ Moves(Monitor)) =>
            /\ summary.received = received
            /\ summary.sent_ok = sent_ok
            /\ summary.sent_fail = sent_fail
            /\ received' = 0 /\ sent_ok' = 0 /\ sent_fail' = 0 /\ errors' = <<>>
            /\ ~kindle_mode'
            /\ summary' = summary
       /\ (pc[Monitor] = "send" /\ Moves(Monitor)) =>
            /\ outbox' \in {Nothing, [by |-> Monitor, text |-> summary]}
            /\ pc'[Monitor] = "sleep"
            /\ UNCHANGED shared
       /\ (outbox' # Nothing /\ outbox'.by = Monitor) =>
            (pc[Monitor] = "send" /\ Moves(Monitor))]_vars

\* The notification of an idle deactivation is on its way to the chat; it
\* reports a session that had received an upload and recorded a failure.
C5_Witness ==
    /\ outbox # Nothing
    /\ outbox.by = Monitor
    /\ outbox.text.received > 0
    /\ outbox.text.sent_fail > 0
    /\ ~kindle_mode /\ CountersZero

(***************************************************************************)
(* C6: no thread is in a call to a collaborator (download, mail delivery,  *)
(* reply, notification) while it holds the lock.                           *)
(***************************************************************************)
C6_NoCallUnderLock == \A t \in Threads : pc[t] \in CallLabels => lock # t

(***************************************************************************)
(* C7: an update whose sender is not the authorized id (or that has no     *)
(* sender) leaves kindle_mode, the counters, the error log and             *)
(* last_activity unchanged and produces only the denial reply.             *)
(***************************************************************************)
C7_UnauthorizedChangesNothing ==
    [][\A t \in Handlers :
        /\ (Moves(t) /\ msg'[t] # NoMsg /\ Unauthorized(msg'[t])) =>
                (pc'[t] = "deny" /\ UNCHANGED <<shared, lock, outbox>>)
        /\ (Moves(t) /\ msg[t] # NoMsg /\ Unauthorized(msg[t])) =>
                /\ pc[t] = "deny" /\ pc'[t] = "done"
                /\ UNCHANGED <<shared, lock>>
                /\ outbox' \in {Nothing, [by |-> t, text |-> DenialText]}]_vars

\* An unauthorized /kindle has been turned down and the denial is on its
\* way to the chat; the session is inactive.
C7_Witness ==
    /\ outbox # Nothing
    /\ outbox.text = DenialText
    /\ ~kindle_mode /\ CountersZero /\ last_activity = 0 /\ now > 0

(***************************************************************************)
(* C8: the idle monitor's notification contains the first 10 entries of    *)
(* the error log as it was immediately before the deactivation.            *)
(***************************************************************************)
C8_NotificationListsErrors ==
    pc[Monitor] = "reset" => summary.errors = FirstN(errors, MaxShown)

(***************************************************************************)
(* C9: in /stop, clearing kindle_mode, capturing the counters and the      *)
(* error log and zeroing them are one atomic step for every other thread:  *)
(* the handler holds the lock throughout, no other thread is inside a      *)
(* critical section or changes the session state meanwhile, the captured   *)
(* values are the counters at the moment of the reset, and the summary     *)
(* replied is made of them.                                                *)
(***************************************************************************)
C9_StopAtomic ==
    [][\A t \in Handlers :
        /\ pc[t] \in StopLabels =>
            /\ lock = t
            /\ \A u \in Threads \ {t} : pc[u] \notin LockedLabels
        /\ (pc[t] \in StopLabels /\ ~Moves(t)) => UNCHANGED <<shared, lock>>
        /\ (pc[t] = "stop_clear" /\ Moves(t)) => UNCHANGED counters
        /\ pc[t] \in {"stop_capture", "stop_reset"} => ~kindle_mode
        /\ pc[t] = "stop_reset" =>
            snap[t] = [received |-> received, sent_ok |-> sent_ok,
                       sent_fail |-> sent_fail, errors |-> errors]
        /\ (pc[t] = "stop_reply" /\ was_on[t] /\ Moves(t) /\ outbox' # Nothing) =>
            outbox'.text = StopSummaryText(snap[t].received, snap[t].sent_ok,
                                           snap[t].sent_fail, snap[t].errors)]_vars

\* A /stop of an active session is about to reset the counters it captured
\* while an upload handler waits for the lock to record its outcome.
C9_Witness ==
    \E t \in Handlers, u \in Handlers :
        /\ pc[t] = "stop_reset" /\ was_on[t] /\ snap[t].received > 0
        /\ pc[u] \in {"download_fail", "sent_ok", "mail_fail"}

(***************************************************************************)
(* C10: last_activity never decreases; it is changed only by touch() in a  *)
(* handler of an update from the authorized user, never by a step of the   *)
(* idle monitor.                                                           *)
(***************************************************************************)
C10_LastActivity ==
    [][/\ last_activity' >= last_activity
       /\ last_activity' # last_activity =>
            \E t \in Handlers :
                /\ pc[t] = "touch_cs" /\ Moves(t)
                /\ msg[t].sender = ALLOWED_USER_ID
       /\ Moves(Monitor) => last_activity' = last_activity]_vars

\* The idle monitor has deactivated a session whose last activity was
\* stamped after process start.
C10_Witness ==
    /\ last_activity > 0
    /\ outbox # Nothing /\ outbox.by = Monitor


(***************************************************************************)
(* C11: an upload of the authorized user that finds the session inactive,  *)
(* or whose file name does not end in .epub (in any letter case), gets the *)
(* matching fixed guidance reply; its handler changes neither kindle_mode  *)
(* nor a counter nor the error log (only last_activity, in touch), and     *)
(* attempts no download and no mail delivery.                              *)
(***************************************************************************)
\* The last five characters are ".epub" in any letter case.
EndsInEpubAnyCase(name) ==
    /\ Len(name) >= 5
    /\ name[Len(name) - 4] = "."
    /\ name[Len(name) - 3] \in {"e", "E"}
    /\ name[Len(name) - 2] \in {"p", "P"}
    /\ name[Len(name) - 1] \in {"u", "U"}
    /\ name[Len(name)] \in {"b", "B"}

\* The labels of handle_document up to and including the guidance replies.
GuidanceLabels == {"need_kindle_reply", "not_epub_reply"}

SessionSteps ==
    \E t \in Handlers :
        /\ Moves(t)
        /\ pc[t] \in {"kindle_cs", "received_cs", "sent_ok_cs", "download_fail_cs",
                      "mail_fail_cs", "stop_clear", "stop_reset"}

\* What the handlers do to the session, one step at a time.
SessionAccounting ==
    /\ (\A t \in Handlers : pc[t] = "done") /\ kindle_mode =>
            received = sent_ok + sent_fail
    /\ \A t \in Handlers : Moves(t) =>
        /\ pc[t] = "kindle_cs" =>
                kindle_mode' /\ received' = 0 /\ sent_ok' = 0 /\ sent_fail' = 0
        /\ pc[t] = "received_cs" =>
                received' = received + 1 /\ UNCHANGED <<kindle_mode, sent_ok, sent_fail>>
        /\ pc[t] = "download" => pc'[t] \in {"mail", "download_fail"}
        /\ pc[t] = "mail" => pc'[t] \in {"sent_ok", "mail_fail"}
        /\ pc[t] = "sent_ok_cs" =>
                sent_ok' = sent_ok + 1 /\ UNCHANGED <<kindle_mode, received, sent_fail>>
        /\ pc[t] \in {"download_fail_cs", "mail_fail_cs"} =>
                sent_fail' = sent_fail + 1 /\ UNCHANGED <<kindle_mode, received, sent_ok>>
        /\ pc[t] \in {"sent_reply", "download_fail_reply", "mail_fail_reply"} =>
                pc'[t] = "done"
        /\ pc[t] = "stop_clear" =>
                was_on'[t] = kindle_mode /\ ~kindle_mode' /\ UNCHANGED counters
        /\ pc[t] = "stop_capture" =>
                /\ snap'[t].received = received
                /\ snap'[t].sent_ok = sent_ok
                /\ snap'[t].sent_fail = sent_fail
                /\ UNCHANGED <<kindle_mode, counters>>
        /\ pc[t] = "stop_reply" =>
                /\ was_on[t] =>
                    /\ outbox'.text.text = "Modo Kindle desativado"
                    /\ outbox'.text.received = snap[t].received
                    /\ outbox'.text.sent_ok = snap[t].sent_ok
                    /\ outbox'.text.sent_fail = snap[t].sent_fail
                /\ ~was_on[t] => outbox'.text = RestingText

C12_StopSummary ==
    [][/\ SessionAccounting
       /\ <<kindle_mode, received, sent_ok, sent_fail>>'
                # <<kindle_mode, received, sent_ok, sent_fail>> => SessionSteps]_vars

\* C12 as amended: the same, unless the idle monitor deactivates the session
\* between the /kindle and the /stop (7200 s without an interaction of the
\* authorized user), in which case the /stop replies "already resting".
C12_StopSummaryUnlessIdle ==
    [][/\ SessionAccounting
       /\ <<kindle_mode, received, sent_ok, sent_fail>>'
                # <<kindle_mode, received, sent_ok, sent_fail>> =>
            \/ SessionSteps
            \/ /\ Moves(Monitor)
               /\ pc[Monitor] \in {"auto_stop", "reset"}
               /\ now - last_activity >= IDLE_SLEEP_SECONDS
               /\ ~kindle_mode']_vars

\* The summary of a session with one upload, delivered, is on its way to
\* the chat.
C12_Witness ==
    /\ outbox # Nothing
    /\ outbox.text = StopSummaryText(1, 1, 0, <<>>)
    /\ ~kindle_mode /\ CountersZero


(***************************************************************************)
(* C13: kindle_mode is false in the initial state; it becomes true only in *)
(* the /kindle handler of the authorized user, and becomes false only in   *)
(* the /stop handler of the authorized user or in a tick of idle_monitor   *)
(* at which now - last_activity >= IDLE_SLEEP_SECONDS; no other step (an   *)
(* upload, a /start, a tick below the threshold) changes it.               *)
(***************************************************************************)
OwnerHandling(t, kind) ==
    /\ Moves(t)
    /\ msg[t].kind = kind
    /\ ~Unauthorized(msg[t])

C13_ModeTransitions ==
    /\ ~kindle_mode
    /\ [][kindle_mode' # kindle_mode =>
            IF kindle_mode'
            THEN \E t \in Handlers : pc[t] = "kindle_cs" /\ OwnerHandling(t, "kindle")
            ELSE \/ \E t \in Handlers : pc[t] = "stop_clear" /\ OwnerHandling(t, "stop")
                 \/ /\ pc[Monitor] = "auto_stop"
                    /\ Moves(Monitor)
                    /\ now - last_activity >= IDLE_SLEEP_SECONDS]_vars

\* The idle monitor has just deactivated a session, while an upload of that
\* session is still being handled.
C13_Witness ==
    /\ pc[Monitor] = "reset"
    /\ ~kindle_mode
    /\ \E t \in Handlers : pc[t] \in {"download", "mail"}


(***************************************************************************)
(* C14: when the notification send of idle_monitor fails, the failure is   *)
(* swallowed: the deactivation and the counter reset of that tick stand,   *)
(* the lock is released and the loop goes back to sleep, so that a later   *)
(* tick that finds a session idle past the threshold deactivates it.       *)
(***************************************************************************)
C14_SendFailureSwallowed ==
    [][/\ (pc[Monitor] = "send" /\ Moves(Monitor) /\ outbox' = Nothing) =>
            /\ ~kindle_mode' /\ CountersZero'
            /\ UNCHANGED shared
            /\ lock = Monitor /\ lock' = Free
            /\ pc'[Monitor] = "sleep"
       /\ (pc[Monitor] = "sleep" /\ Moves(Monitor)) => pc'[Monitor] = "check"
       /\ (pc[Monitor] = "check" /\ Moves(Monitor)
                /\ kindle_mode /\ now - last_activity >= IDLE_SLEEP_SECONDS) =>
            pc'[Monitor] = "auto_stop"
       /\ (pc[Monitor] = "auto_stop" /\ Moves(Monitor)) => ~kindle_mode']_vars

\* With every notification lost, the monitor has deactivated and reset a
\* session that was last touched at IDLE_SLEEP_SECONDS, a threshold later.
C14_Witness ==
    /\ pc[Monitor] = "send"
    /\ lock = Monitor
    /\ ~kindle_mode /\ CountersZero
    /\ last_activity = IDLE_SLEEP_SECONDS
    /\ now = 2 * IDLE_SLEEP_SECONDS


(***************************************************************************)
(* C15: every upload that passes the authorization, mode and extension     *)
(* checks records exactly one outcome: sent_fail is incremented (and one   *)
(* entry appended to errors) if and only if the download or the e-mail     *)
(* fails, sent_ok is incremented if and only if both succeed; an upload    *)
(* whose download and e-mail both succeed leaves sent_fail and errors      *)
(* unchanged whatever becomes of its success reply.                        *)
(***************************************************************************)
C15_OneOutcome ==
    [][\A t \in Handlers : Moves(t) =>
        /\ pc[t] = "download" => pc'[t] \in {"mail", "download_fail"}
        /\ pc[t] = "mail" => pc'[t] \in {"sent_ok", "mail_fail"}
        /\ pc'[t] = "download_fail" => pc[t] = "download"
        /\ pc'[t] = "mail_fail" => pc[t] = "mail"
        /\ pc'[t] = "sent_ok" => pc[t] = "mail"
        /\ pc[t] \in {"download_fail_cs", "mail_fail_cs"} =>
                /\ sent_fail' = sent_fail + 1
                /\ Len(errors') = Len(errors) + 1
                /\ sent_ok' = sent_ok
                /\ pc'[t] \in {"download_fail_reply", "mail_fail_reply"}
        /\ pc[t] = "sent_ok_cs" =>
                /\ sent_ok' = sent_ok + 1
                /\ UNCHANGED <<sent_fail, errors>>
                /\ pc'[t] = "sent_reply"
        /\ pc[t] \in {"sent_reply", "download_fail_reply", "mail_fail_reply"} =>
                /\ pc'[t] = "done"
                /\ UNCHANGED <<sent_ok, sent_fail, errors>>]_vars


(***************************************************************************)
(* C16: an active session that has gone without a touch for the threshold  *)
(* is eventually deactivated, under fair scheduling of the threads and     *)
(* terminating calls, unless a touch arrives in between; and once          *)
(* kindle_mode is false it stays false until the /kindle handler of the    *)
(* authorized user sets it.                                                *)
(***************************************************************************)
IdleSession == kindle_mode /\ now - last_activity >= IDLE_SLEEP_SECONDS

C16_IdleEventuallyStops ==
    /\ IdleSession ~> (~kindle_mode \/ now - last_activity < IDLE_SLEEP_SECONDS)
    /\ [][(~kindle_mode /\ kindle_mode') =>
            \E t \in Handlers : pc[t] = "kindle_cs" /\ OwnerHandling(t, "kindle")]_vars

\* The monitor is deactivating an idle session while both handler threads
\* are busy with updates.
C16_Witness ==
    /\ pc[Monitor] = "auto_stop"
    /\ IdleSession
    /\ \A t \in Handlers : pc[t] # "done"


(***************************************************************************)
(* C17: each end of a session is reported exactly once: of an authorized   *)
(* /stop and a tick of idle_monitor that finds the session idle, the one   *)
(* that takes kindle_mode from true to false emits the summary (the /stop  *)
(* reply or the notification) and the other emits none (the /stop replies  *)
(* "already resting", the tick does nothing).                              *)
(***************************************************************************)
Summaries == {StopSummaryText(0, 0, 0, <<>>).text, IdleSummaryText(0, 0, 0).text}

Ends == kindle_mode /\ ~kindle_mode'

C17_OneReportPerSession ==
    [][/\ Ends => \/ \E t \in Handlers : pc[t] = "stop_clear" /\ Moves(t)
                  \/ pc[Monitor] = "auto_stop" /\ Moves(Monitor)
       /\ \A t \in Handlers :
            /\ (pc[t] = "stop_clear" /\ Moves(t)) => (was_on'[t] <=> Ends)
            /\ was_on'[t] # was_on[t] => Moves(t) /\ (pc[t] = "stop_clear" \/ pc'[t] = "done")
            /\ (pc[t] = "stop_reply" /\ Moves(t) /\ outbox' # Nothing) =>
                    IF was_on[t] THEN outbox'.text.text \in Summaries
                    ELSE outbox'.text = RestingText
            /\ (was_on[t] /\ Moves(t)) => pc[t] \in {"stop_capture", "stop_reset", "stop_reply"}
       /\ Moves(Monitor) =>
            /\ pc[Monitor] = "auto_stop" => Ends /\ pc'[Monitor] = "reset"
            /\ pc[Monitor] = "reset" => pc'[Monitor] = "send"
            /\ pc'[Monitor] = "send" => pc[Monitor] = "reset"
            /\ pc'[Monitor] = "reset" => pc[Monitor] = "auto_stop"
       /\ (outbox = Nothing /\ outbox' # Nothing /\ outbox'.text.text \in Summaries) =>
            \/ \E t \in Handlers :
                    pc[t] = "stop_reply" /\ Moves(t) /\ was_on[t] /\ outbox'.by = t
            \/ pc[Monitor] = "send" /\ Moves(Monitor) /\ outbox'.by = Monitor]_vars

\* The monitor has ended an idle session and is about to notify it, while a
\* /stop of the owner that arrived in the meantime waits for the lock.
C17_Witness ==
    /\ pc[Monitor] = "send"
    /\ \E t \in Handlers : pc[t] = "touch" /\ msg[t].kind = "stop"


(***************************************************************************)
(* C18: in every reachable state in which no critical section is in        *)
(* progress, sent_ok + sent_fail <= received, under every interleaving of  *)
(* upload handlers with /kindle, /stop and ticks of idle_monitor.          *)
(***************************************************************************)
C18_OutcomesWithinReceptions == lock = Free => sent_ok + sent_fail <= received


(***************************************************************************)
(* C20: in every reachable state in which no critical section is in        *)
(* progress, the length of the error log equals sent_fail: each failure    *)
(* increments the counter and appends one entry in the same critical       *)
(* section, and both are reset together.                                   *)
(***************************************************************************)
C20_ErrorLogMatchesFailures == lock = Free => Len(errors) = sent_fail

\* A failed download is on record and no critical section is in progress.
C20_Witness ==
    /\ lock = Free
    /\ sent_fail = 1
    /\ Len(errors) = 1
    /\ errors[1] = DownloadError(Name_B_c_EPUB)


(***************************************************************************)
(* C19: the lock never deadlocks: no handler and no tick of idle_monitor   *)
(* requests the lock while holding it, every critical section is left on   *)
(* every path, and under fair scheduling every thread that requests the    *)
(* lock eventually acquires it.                                            *)
(***************************************************************************)
RequestLabels ==
    {"touch", "kindle", "stop", "mode", "received", "download_fail", "sent_ok",
     "mail_fail", "sleep"}

Requests(t) == pc[t] \in RequestLabels /\ (t \in Handlers \/ pc[t] = "sleep")

\* A thread leaves a request only by acquiring the lock, so that "never
\* waits for ever" is "eventually acquires".
C19_LockNeverDeadlocks ==
    /\ [](\A t \in Threads :
            /\ lock = t <=> pc[t] \in LockedLabels
            /\ Requests(t) => lock # t)
    /\ [][\A t \in Threads : (Requests(t) /\ Moves(t)) => (lock = Free /\ lock' = t)]_vars
    /\ \A t \in Threads : []<>(~Requests(t))
    /\ []<>(lock = Free)

\* Both handler threads and the monitor are at the lock: one holds it, the
\* other two wait for it.
C19_Witness ==
    /\ lock \in Handlers
    /\ Requests(Monitor)
    /\ \E t \in Handlers : Requests(t)

====
